---------------------------- MODULE Spec2Model ----------------------------
(***************************************************************************)
(* Schema-guided dialogue state tracking (NeMo): the masking rules of the  *)
(* SGDModel forward pass, the decoding done by eval_iter_callback, the     *)
(* constructor of the BERT encoder module and the epoch-end evaluation.     *)
(*                                                                         *)
(* Tensors are records [shape, data] with data in row-major order, as      *)
(* torch lays them out; indices reported by argmax, div and fmod are       *)
(* 0-based as in torch, positions in data are 1-based as in TLA+.          *)
(*                                                                         *)
(* Floating point is modelled exactly on rationals <<num, den>>.  exp is   *)
(* modelled by a strictly increasing function that underflows to 0 when    *)
(* its argument lies more than ExpRange below the row maximum (float32     *)
(* exp does so about 104 below, and a float32 sum with 1 absorbs it from   *)
(* about 17 below); softmax subtracts the row maximum first, as torch      *)
(* does.  Scorer networks (Logits, the span projection) are arbitrary     *)
(* functions of learned weights: their outputs are inputs of the model,    *)
(* drawn from RawLogits.                                                   *)
(***************************************************************************)
EXTENDS Integers, Sequences, FiniteSets, TLC

VARIABLES
    self,         \* the object constructed: the SGDModel (mode, layers,
                  \* schema_config) or the BERT module
    tensors,      \* the values handed to eval_iter_callback: name -> chunks
    global_vars,  \* the dict shared by the callbacks
    call,         \* the function applied last and its arguments; the callback's
                  \* call keeps the batch the step forwarded
    ret,          \* what it returned
    files,        \* the files the epoch callback reads and writes: path -> content
    log           \* the lines given to logging.info

vars == <<self, tensors, global_vars, call, ret, files, log>>

None == "None"
\* ret before the function has returned; <<value>> or a tuple afterwards
NoRet == << >>

(***************************************************************************)
(* Bounds of the model.                                                    *)
(***************************************************************************)
MaxCap == 2        \* largest capacity handed to _get_mask
MaxMaskElems == 4  \* most lengths in one call of _get_mask
ExpRange == 1      \* exp(x - max) is 0 when max - x > ExpRange
MaxTokens == 3     \* max_num_tokens of the decoding specifications
MaxRecords == 3    \* examples decoded in one evaluation run
MaxTurn == 1       \* turn ids of the examples of an evaluation run
MaxStatusSlots == 2 \* slot capacities tried on _get_slots_status
MaxDivTokens == 6  \* token counts tried on the span index arithmetic
MaxVocab == 2      \* vocabulary sizes tried on the BERT constructor
MaxHidden == 2     \* hidden sizes tried on the BERT constructor
MaxFrames == 3     \* predictions accumulated when the epoch callback runs

\* schema_config of the decoding specifications
MAX_NUM_INTENT == 1
MAX_NUM_CAT_SLOT == 2
MAX_NUM_VALUE_PER_CAT_SLOT == 2
MAX_NUM_NONCAT_SLOT == 1

(***************************************************************************)
(* Program constants.                                                      *)
(***************************************************************************)
\* torch.finfo(dtype).max * -0.7: far below every scorer output
NegativeLogit == -1000
\* the embedding_dim argument of SGDModel.__init__
EmbeddingDim == 2

\* what a scorer network can put out: 0 and 1 are ordinary, -8 is a real
\* logit so far below the others that its exp underflows
RawLogits == {-8, 0, 1}

(***************************************************************************)
(* Arithmetic.                                                             *)
(***************************************************************************)
RECURSIVE Gcd(_, _)
Gcd(a, b) == IF b = 0 THEN a ELSE Gcd(b, a % b)

RECURSIVE Pow2(_)
Pow2(n) == IF n = 0 THEN 1 ELSE 2 * Pow2(n - 1)

RECURSIVE Prod(_)
Prod(s) == IF s = << >> THEN 1 ELSE Head(s) * Prod(Tail(s))

RECURSIVE SumSeq(_)
SumSeq(s) == IF s = << >> THEN 0 ELSE Head(s) + SumSeq(Tail(s))

\* a rational in lowest terms, so that equal values are equal tuples
Frac(n, d) == LET g == Gcd(n, d) IN IF n = 0 THEN <<0, 1>> ELSE <<n \div g, d \div g>>
FAdd(p, q) == Frac(p[1] * q[2] + q[1] * p[2], p[2] * q[2])
FLess(p, q) == p[1] * q[2] < q[1] * p[2]
FLeq(p, q) == p[1] * q[2] <= q[1] * p[2]
FZero == <<0, 1>>
FOne == <<1, 1>>

Tuples(S, n) == [1..n -> S]
Idle == [fn |-> "idle"]

(***************************************************************************)
(* Tensors.                                                                *)
(***************************************************************************)
\* data is joined with the empty sequence so that it is held as a tuple
Tensor(shape, data) == [shape |-> shape, data |-> data \o << >>]
Numel(shape) == Prod(shape)
Full(shape, x) == Tensor(shape, [k \in 1..Numel(shape) |-> x])
LastDim(t) == t.shape[Len(t.shape)]
ButLast(s) == SubSeq(s, 1, Len(s) - 1)
\* row e (1-based) along the last axis
Row(t, e) == SubSeq(t.data, (e - 1) * LastDim(t) + 1, e * LastDim(t))
NumRows(t) == Numel(ButLast(t.shape))

\* torch.where(cond, a, b), all of one shape
Where(cond, a, b) ==
    Tensor(a.shape, [k \in 1..Len(a.data) |-> IF cond.data[k] THEN a.data[k] ELSE b.data[k]])

(***************************************************************************)
(* SGDModel._get_mask                                                      *)
(***************************************************************************)
get_mask_off_by_one(logits, max_length, actual_length) ==
    << Tensor(actual_length.shape \o <<max_length>>,
              [k \in 1..(Numel(actual_length.shape) * max_length) |->
                  ((k - 1) % max_length) <= actual_length.data[((k - 1) \div max_length) + 1]]),
       Full(logits.shape, NegativeLogit) >>

\* mask = arange(0, max_length) < unsqueeze(actual_length, -1), broadcast;
\* negative_logits = (finfo.max * -0.7) * ones(logits.size())
get_mask(logits, max_length, actual_length) ==
    << Tensor(actual_length.shape \o <<max_length>>,
              [k \in 1..(Numel(actual_length.shape) * max_length) |->
                  ((k - 1) % max_length) < actual_length.data[((k - 1) \div max_length) + 1]]),
       Full(logits.shape, NegativeLogit) >>

(***************************************************************************)
(* Elementwise and last-axis operations of torch used by the code.         *)
(***************************************************************************)
\* t + c for a scalar c
AddScalar(t, c) == Tensor(t.shape, [k \in 1..Len(t.data) |-> t.data[k] + c])

\* t.view(shape): the same data under another shape
View(t, shape) == Tensor(shape, t.data)

\* t.to(bool): nonzero is true
ToBool(t) == Tensor(t.shape, [k \in 1..Len(t.data) |-> t.data[k] # 0])

MaxOf(S) == CHOOSE x \in S : \A y \in S : y <= x

\* exp(x - m) for x <= m, scaled by 2^ExpRange; 0 once it underflows
ExpW(x, m) == IF m - x > ExpRange THEN 0 ELSE Pow2(ExpRange - (m - x))

SoftmaxRow(row) ==
    LET m == MaxOf({row[k] : k \in 1..Len(row)})
        w == [k \in 1..Len(row) |-> ExpW(row[k], m)]
        total == SumSeq(w)
    IN  [k \in 1..Len(row) |-> Frac(w[k], total)]

RECURSIVE Concat(_)
Concat(ss) == IF ss = << >> THEN << >> ELSE Head(ss) \o Concat(Tail(ss))

Softmax_all(t) == Tensor(t.shape, SoftmaxRow(t.data))

\* torch.nn.Softmax(dim=-1)
Softmax(t) == Tensor(t.shape, Concat([e \in 1..NumRows(t) |-> SoftmaxRow(Row(t, e))]))

\* index (0-based) of the first maximal entry of a row of integers
ArgmaxRow(row) ==
    (CHOOSE k \in 1..Len(row) :
        /\ \A j \in 1..Len(row) : row[j] <= row[k]
        /\ \A j \in 1..(k - 1) : row[j] < row[k]) - 1

ArgmaxRowF_last(row) ==
    (CHOOSE k \in 1..Len(row) :
        /\ \A j \in 1..Len(row) : FLeq(row[j], row[k])
        /\ \A j \in (k + 1)..Len(row) : FLess(row[j], row[k])) - 1

\* the same on a row of rationals
ArgmaxRowF(row) ==
    (CHOOSE k \in 1..Len(row) :
        /\ \A j \in 1..Len(row) : FLeq(row[j], row[k])
        /\ \A j \in 1..(k - 1) : FLess(row[j], row[k])) - 1

\* torch.argmax(t, -1) and torch.max(t, -1)[0]
Argmax(t) == Tensor(ButLast(t.shape), [e \in 1..NumRows(t) |-> ArgmaxRow(Row(t, e))])
ArgmaxF(t) == Tensor(ButLast(t.shape), [e \in 1..NumRows(t) |-> ArgmaxRowF(Row(t, e))])
MaxF(t) ==
    Tensor(ButLast(t.shape), [e \in 1..NumRows(t) |-> Row(t, e)[ArgmaxRowF(Row(t, e)) + 1]])

\* torch.nn.Sigmoid(): 1 / (1 + exp(-x)), exp(|x|) overflowing to inf (and the
\* result saturating at 0 or 1) once |x| exceeds the range of exp
Sigmoid(x) ==
    IF x > 2 * ExpRange + 1 THEN FOne
    ELSE IF x < -(2 * ExpRange + 1) THEN FZero
    ELSE IF x >= 0 THEN Frac(Pow2(x), Pow2(x) + 1)
    ELSE Frac(1, 1 + Pow2(-x))

SigmoidT_normalised(t) == Softmax(t)

SigmoidT(t) == Tensor(t.shape, [k \in 1..Len(t.data) |-> Sigmoid(t.data[k])])

Div_ceil(t, n) == Tensor(t.shape, [k \in 1..Len(t.data) |-> (t.data[k] + n - 1) \div n])

\* torch.div and torch.fmod of non-negative integer tensors by an integer
\* (integer division in the torch release the callback was written for)
Div(t, n) == Tensor(t.shape, [k \in 1..Len(t.data) |-> t.data[k] \div n])

Fmod_shifted(t, n) == Tensor(t.shape, [k \in 1..Len(t.data) |-> (t.data[k] + 1) % n])

\* torch.fmod of a non-negative integer tensor by an integer
Fmod(t, n) == Tensor(t.shape, [k \in 1..Len(t.data) |-> t.data[k] % n])

(***************************************************************************)
(* Shapes of the status-scoring layers: what each module's forward accepts *)
(* and the shape it returns.  A module call yields [error, shape].         *)
(***************************************************************************)
Ok(shape) == [error |-> None, shape |-> shape]
Raise(e) == [error |-> e, shape |-> << >>]

\* Logits.forward(encoded_utterance, element_embeddings): (B, N, num_classes)
Logits_forward(layer, args) ==
    IF Len(args) # 2 THEN Raise("TypeError")
    ELSE IF Len(args[1]) # 2 \/ Len(args[2]) # 3 \/ args[1][1] # args[2][1]
         THEN Raise("RuntimeError")
    ELSE Ok(<<args[2][1], args[2][2], layer.num_classes>>)

\* LogitsNew.forward(encoded_utterance, element_embeddings, weight_matrix):
\* (B, N, 2D) repeated to (B, N, 2D, num_classes), times weight_matrix,
\* summed over dim -2
LogitsNew_forward(layer, args) ==
    IF Len(args) # 3 THEN Raise("TypeError")
    ELSE IF Len(args[1]) # 2 \/ Len(args[2]) # 3 \/ args[1][1] # args[2][1]
         THEN Raise("RuntimeError")
    ELSE LET emb == <<args[2][1], args[2][2], args[1][2] + args[2][3], layer.num_classes>>
         IN  IF args[3] # emb THEN Raise("RuntimeError")
             ELSE Ok(<<emb[1], emb[2], emb[4]>>)

\* nn.Linear(in_features, out_features) applied to (..., in_features)
Linear_forward(layer, shape) ==
    IF shape[Len(shape)] # layer.in_features THEN Raise("RuntimeError")
    ELSE Ok(ButLast(shape) \o <<layer.out_features>>)

CallModule(layer, args) ==
    CASE layer.cls = "Logits" -> Logits_forward(layer, args)
      [] layer.cls = "LogitsNew" -> LogitsNew_forward(layer, args)
      [] layer.cls = "Linear" ->
            IF Len(args) # 1 THEN Raise("TypeError") ELSE Linear_forward(layer, args[1])

StatusModes ==
    {"cls_token", "special_tokens_single", "special_tokens_double", "special_tokens_multi"}

NoLayers == [k \in {} |-> None]

SGDModel_init_default(embedding_dim, slots_status_model, schema_config) ==
    [ slots_status_model |-> slots_status_model,
      schema_config |-> schema_config,
      embedding_dim |-> embedding_dim,
      layers |-> [k \in {"cat_slot_status_layer", "noncat_slot_status_layer"} |->
                    [cls |-> "Logits", num_classes |-> 3]] ]

(***************************************************************************)
(* SGDModel.__init__: the status-scoring layers the configured mode gets.  *)
(***************************************************************************)
SGDModel_init(embedding_dim, slots_status_model, schema_config) ==
    [ slots_status_model |-> slots_status_model,
      schema_config |-> schema_config,
      embedding_dim |-> embedding_dim,
      layers |->
        IF slots_status_model = "special_tokens_multi"
        THEN [k \in {"slot_status_token_layer1", "slot_status_token_layer2"} |->
                IF k = "slot_status_token_layer1"
                THEN [cls |-> "Linear", in_features |-> 2 * embedding_dim,
                      out_features |-> embedding_dim]
                ELSE [cls |-> "Linear", in_features |-> embedding_dim, out_features |-> 3]]
        ELSE IF slots_status_model \in
                    {"cls_token", "special_tokens_single", "special_tokens_double"}
        THEN [k \in {"cat_slot_status_layer", "noncat_slot_status_layer"} |->
                IF k = "cat_slot_status_layer"
                THEN [cls |-> "LogitsNew", num_classes |-> 3]
                ELSE [cls |-> "Logits", num_classes |-> 3]]
        ELSE NoLayers ]

\* self.<name>(*args): AttributeError when __init__ created no such layer
CallLayer(obj, name, args) ==
    IF name \notin DOMAIN obj.layers THEN Raise("AttributeError")
    ELSE CallModule(obj.layers[name], args)

\* the result of _get_slots_status: the two shapes, or the exception raised
StatusOk(cat, noncat) == [error |-> None, cat |-> cat, noncat |-> noncat]
StatusRaise(e) == [error |-> e, cat |-> << >>, noncat |-> << >>]
Both(c, n) ==
    IF c.error # None THEN StatusRaise(c.error)
    ELSE IF n.error # None THEN StatusRaise(n.error)
    ELSE StatusOk(c.shape, n.shape)

Min(a, b) == IF a < b THEN a ELSE b

(***************************************************************************)
(* SGDModel._get_slots_status, on the shapes of its arguments.             *)
(***************************************************************************)
get_slots_status(obj, cat_slot_emb, noncat_slot_emb, token_embeddings, encoded_utterance, cat_slot_emb_weights, noncat_slot_emb_weights) ==
    LET B == token_embeddings[1]
        T == token_embeddings[2]
        D == token_embeddings[3]
        mode == obj.slots_status_model
        C == obj.schema_config.MAX_NUM_CAT_SLOT
        N == obj.schema_config.MAX_NUM_NONCAT_SLOT
    IN
    IF mode = "cls_token" THEN
        Both(CallLayer(obj, "cat_slot_status_layer",
                       <<encoded_utterance, cat_slot_emb, cat_slot_emb_weights>>),
             CallLayer(obj, "noncat_slot_status_layer", <<encoded_utterance, noncat_slot_emb>>))
    ELSE IF mode = "special_tokens_single" THEN
        \* token_embeddings[:, -1] is (B, D)
        Both(CallLayer(obj, "cat_slot_status_layer", <<(<<B, D>>), cat_slot_emb>>),
             CallLayer(obj, "cat_slot_status_layer", <<(<<B, D>>), noncat_slot_emb>>))
    ELSE IF mode = "special_tokens_double" THEN
        \* token_embeddings[:, -2] needs two tokens
        IF T < 2 THEN StatusRaise("IndexError")
        ELSE Both(CallLayer(obj, "cat_slot_status_layer", <<(<<B, D>>), cat_slot_emb>>),
                  CallLayer(obj, "noncat_slot_status_layer", <<(<<B, D>>), noncat_slot_emb>>))
    ELSE IF mode = "special_tokens_multi" THEN
        LET token_embeddings_status == <<B, Min(T, C + N), D>>
            all_slot_emb == <<B, cat_slot_emb[2] + noncat_slot_emb[2], D>>
        IN  IF token_embeddings_status[2] # all_slot_emb[2] THEN StatusRaise("RuntimeError")
            ELSE LET slot_token_embeddings == <<B, all_slot_emb[2], 2 * D>>
                     l1 == CallLayer(obj, "slot_status_token_layer1", <<slot_token_embeddings>>)
                     l2 == CallLayer(obj, "slot_status_token_layer2", <<l1.shape>>)
                 IN  IF l1.error # None THEN StatusRaise(l1.error)
                     ELSE IF l2.error # None THEN StatusRaise(l2.error)
                     ELSE StatusOk(<<l2.shape[1], Min(C, l2.shape[2]), l2.shape[3]>>,
                                   <<l2.shape[1], l2.shape[2] - Min(C, l2.shape[2]),
                                     l2.shape[3]>>)
    ELSE StatusRaise("UnboundLocalError")

(***************************************************************************)
(* The heads of SGDModel.forward.  Each takes the output of its scorer     *)
(* network (an input of the model) and applies the masking of the code.    *)
(***************************************************************************)
get_intents_no_none(logits, max_num_intents, num_intents) ==
    LET m == get_mask(logits, max_num_intents + 1, num_intents)
    IN  Where(m[1], logits, m[2])

\* _get_intents: logits is the intent_layer output, (B, max_num_intents + 1),
\* the NONE intent at index 0
get_intents(logits, max_num_intents, num_intents) ==
    LET m == get_mask(logits, max_num_intents + 1, AddScalar(num_intents, 1))
    IN  Where(m[1], logits, m[2])

get_requested_slots_masked(logits, req_num_slots) ==
    LET m == get_mask(logits, LastDim(logits), req_num_slots)
    IN  <<Where(m[1], logits, m[2]), View(m[1], <<Len(m[1].data)>>)>>

\* _get_requested_slots: logits is the requested_slots_layer output, (B, max_slots)
get_requested_slots(logits, req_num_slots) ==
    LET max_num_requested_slots == LastDim(logits)
        m == get_mask(logits, max_num_requested_slots, req_num_slots)
    IN  <<logits, View(m[1], <<Len(m[1].data)>>)>>

get_categorical_slot_values_unmasked(value_logits, num_categorical_slot_values) ==
    value_logits

\* _get_categorical_slot_values: value_logits is the cat_slot_value_layer
\* output viewed as (B, max_num_slots, max_num_values)
get_categorical_slot_values(value_logits, num_categorical_slot_values) ==
    LET max_num_values == LastDim(value_logits)
        m == get_mask(value_logits, max_num_values, num_categorical_slot_values)
    IN  Where(m[1], value_logits, m[2])

\* utterance_mask.unsqueeze(1).unsqueeze(3).repeat(1, max_num_slots, 1, 2)
RepeatUtteranceMask(utterance_mask, max_num_slots) ==
    LET B == utterance_mask.shape[1]
        T == utterance_mask.shape[2]
    IN  Tensor(<<B, max_num_slots, T, 2>>,
               [k \in 1..(B * max_num_slots * T * 2) |->
                   utterance_mask.data[((k - 1) \div (max_num_slots * T * 2)) * T
                                       + (((k - 1) \div 2) % T) + 1]])

\* torch.unbind(t, dim=3)[c] for a tensor whose last axis has 2 entries
Unbind3(t, c) ==
    Tensor(ButLast(t.shape), [k \in 1..(Len(t.data) \div 2) |-> t.data[2 * (k - 1) + c + 1]])

get_noncategorical_slot_values_start_only(span_logits, utterance_mask) ==
    LET mask == RepeatUtteranceMask(ToBool(utterance_mask), span_logits.shape[2])
        masked == Where(mask, span_logits, Full(span_logits.shape, NegativeLogit))
    IN  <<Unbind3(masked, 0), Unbind3(span_logits, 1)>>

\* _get_noncategorical_slot_values: span_logits is the noncat_layer2 output,
\* (B, max_num_slots, max_num_tokens, 2); returns the start and end logits
get_noncategorical_slot_values(span_logits, utterance_mask) ==
    LET max_num_slots == span_logits.shape[2]
        repeated_utterance_mask == RepeatUtteranceMask(ToBool(utterance_mask), max_num_slots)
        negative_logits == Full(span_logits.shape, NegativeLogit)
        masked == Where(repeated_utterance_mask, span_logits, negative_logits)
    IN  <<Unbind3(masked, 0), Unbind3(masked, 1)>>

(***************************************************************************)
(* SGDModel.forward on one batch.  batch holds the data layer's tensors    *)
(* and, under scorer, the outputs of the scorer networks.  Returns the     *)
(* exception _get_slots_status raised, or the eight outputs.               *)
(***************************************************************************)
forward(obj, batch) ==
    LET B == batch.utterance_mask.shape[1]
        T == batch.utterance_mask.shape[2]
        D == obj.embedding_dim
        cfg == obj.schema_config
        logit_intent_status ==
            get_intents(batch.scorer.intent, cfg.MAX_NUM_INTENT, batch.num_intents)
        req == get_requested_slots(batch.scorer.req, batch.req_num_slots)
        logit_cat_slot_value ==
            get_categorical_slot_values(batch.scorer.cat_value,
                                        batch.num_categorical_slot_values)
        span == get_noncategorical_slot_values(batch.scorer.span, batch.utterance_mask)
        status == get_slots_status(obj,
                      <<B, cfg.MAX_NUM_CAT_SLOT, D>>, <<B, cfg.MAX_NUM_NONCAT_SLOT, D>>,
                      <<B, T, D>>, <<B, D>>,
                      <<B, cfg.MAX_NUM_CAT_SLOT, 2 * D, 3>>,
                      <<B, cfg.MAX_NUM_NONCAT_SLOT, 2 * D, 3>>)
    IN  IF status.error # None THEN [error |-> status.error]
        ELSE [ error |-> None,
               logit_intent_status |-> logit_intent_status,
               logit_req_slot_status |-> req[1],
               req_slot_mask |-> req[2],
               logit_cat_slot_status |-> View(batch.scorer.cat_status, status.cat),
               logit_cat_slot_value |-> logit_cat_slot_value,
               logit_noncat_slot_status |-> View(batch.scorer.noncat_status, status.noncat),
               logit_noncat_slot_start |-> span[1],
               logit_noncat_slot_end |-> span[2] ]

(***************************************************************************)
(* sgd_callback.py                                                         *)
(***************************************************************************)
\* torch.cat(v): the chunks joined along dim 0
Cat(v) ==
    Tensor(<<SumSeq([c \in 1..Len(v) |-> v[c].shape[1]])>> \o Tail(v[1].shape),
           Concat([c \in 1..Len(v) |-> v[c].data]))

ServiceNames == <<"Banks_1", "Hotels_2">>

\* get_str_example_id: "{}-{}_{:05d}-{:02d}-{}" of the dataset name, the
\* two dialogue id parts, the turn id and the service's name; the formatted
\* string is kept as the tuple of its parts
get_str_example_id(eval_dataset, ids_to_service_names_dict, example_id_num) ==
    [i \in 1..example_id_num.shape[1] |->
        LET r == Row(example_id_num, i)
        IN  <<eval_dataset, r[1], r[2], r[3], ids_to_service_names_dict[r[4] + 1]>>]

CeilDiv(a, b) == (a + b - 1) \div b

\* torch.chunk(t, chunks): pieces of ceil(dim0 / chunks) rows along dim 0
Chunk(t, chunks) ==
    LET size == CeilDiv(t.shape[1], chunks)
        width == Numel(Tail(t.shape))
    IN  [c \in 1..CeilDiv(t.shape[1], size) |->
            LET lo == (c - 1) * size
                hi == Min(c * size, t.shape[1])
            IN  Tensor(<<hi - lo>> \o Tail(t.shape),
                       SubSeq(t.data, lo * width + 1, hi * width))]

combine_predictions_in_example_first(predictions, batch_size) ==
    [i \in 1..batch_size |->
        [k \in DOMAIN predictions |->
            IF k = "example_id" THEN predictions[k][i]
            ELSE Chunk(predictions[k], batch_size)[1].data]]

\* combine_predictions_in_example: one record per example; v[i].view(-1) is
\* the data of chunk i
combine_predictions_in_example(predictions, batch_size) ==
    [i \in 1..batch_size |->
        [k \in DOMAIN predictions |->
            IF k = "example_id" THEN predictions[k][i]
            ELSE Chunk(predictions[k], batch_size)[i].data]]

\* total_scores = unsqueeze(start_scores, 3) + unsqueeze(end_scores, 2):
\* entry (b, s, i, j) is start_scores[b, s, i] + end_scores[b, s, j]
OuterSum(start_scores, end_scores) ==
    LET T == LastDim(end_scores)
    IN  Tensor(ButLast(end_scores.shape) \o <<T, T>>,
               [k \in 1..(Len(end_scores.data) * T) |->
                   FAdd(start_scores.data[((k - 1) \div T) + 1],
                        end_scores.data[((k - 1) \div (T * T)) * T + ((k - 1) % T) + 1])])

InvalidIndexMask_none(shape) == Full(shape, FALSE)

\* (start_idx > end_idx).repeat(batch_size, max_num_noncat_slots, 1, 1)
InvalidIndexMask(shape) ==
    LET T == shape[Len(shape)]
    IN  Tensor(shape, [k \in 1..Numel(shape) |-> (((k - 1) \div T) % T) > ((k - 1) % T)])

\* the local dict predictions of eval_iter_callback, built from the joined
\* tensors
Predictions(output, ids_to_service_names_dict, eval_dataset) ==
    LET cat_slot_status_dist == Softmax(output.logit_cat_slot_status)
        cat_slot_value_dist == Softmax(output.logit_cat_slot_value)
        noncat_slot_status_dist == Softmax(output.logit_noncat_slot_status)
        start_scores == Softmax(output.logit_noncat_slot_start)
        end_scores == Softmax(output.logit_noncat_slot_end)
        batch_size == end_scores.shape[1]
        max_num_noncat_slots == end_scores.shape[2]
        max_num_tokens == end_scores.shape[3]
        summed == OuterSum(start_scores, end_scores)
        total_scores == Where(InvalidIndexMask(summed.shape), Full(summed.shape, FZero), summed)
        flat == View(total_scores,
                     <<batch_size, max_num_noncat_slots, max_num_tokens * max_num_tokens>>)
        max_span_index == ArgmaxF(flat)
        max_span_p == MaxF(flat)
    IN  [ example_id |->
              get_str_example_id(eval_dataset, ids_to_service_names_dict, output.example_id_num),
          service_id |-> output.service_id,
          is_real_example |-> output.is_real_example,
          intent_status |-> Argmax(output.logit_intent_status),
          req_slot_status |-> SigmoidT(output.logit_req_slot_status),
          cat_slot_status |-> Argmax(output.logit_cat_slot_status),
          cat_slot_status_p |-> MaxF(cat_slot_status_dist),
          cat_slot_value |-> Argmax(output.logit_cat_slot_value),
          cat_slot_value_p |-> MaxF(cat_slot_value_dist),
          noncat_slot_status |-> Argmax(output.logit_noncat_slot_status),
          noncat_slot_status_p |-> MaxF(noncat_slot_status_dist),
          noncat_slot_p |-> max_span_p,
          noncat_slot_start |-> Div(max_span_index, max_num_tokens),
          noncat_slot_end |-> Fmod(max_span_index, max_num_tokens),
          noncat_alignment_start |-> output.start_char_idx,
          noncat_alignment_end |-> output.end_char_idx,
          cat_slot_status_GT |-> output.categorical_slot_status,
          noncat_slot_status_GT |-> output.noncategorical_slot_status ]

Output_swapped(tens) ==
    [k \in DOMAIN tens |-> Cat(tens[IF k = "start_char_idx" THEN "end_char_idx" ELSE k])]

\* for k, v in tensors.items(): output[name] = torch.cat(v)
Output(tens) == [k \in DOMAIN tens |-> Cat(tens[k])]

\* the records one call of eval_iter_callback appends
Decoded(tens, ids_to_service_names_dict, eval_dataset) ==
    LET predictions == Predictions(Output(tens), ids_to_service_names_dict, eval_dataset)
        batch_size == Output(tens).logit_noncat_slot_end.shape[1]
    IN  combine_predictions_in_example(predictions, batch_size)

(***************************************************************************)
(* The inputs of an evaluation step: one example as the data layer and the *)
(* scorer networks deliver it, and the batch collated from examples.       *)
(***************************************************************************)
SchemaConfig ==
    [ MAX_NUM_INTENT |-> MAX_NUM_INTENT,
      MAX_NUM_CAT_SLOT |-> MAX_NUM_CAT_SLOT,
      MAX_NUM_VALUE_PER_CAT_SLOT |-> MAX_NUM_VALUE_PER_CAT_SLOT,
      MAX_NUM_NONCAT_SLOT |-> MAX_NUM_NONCAT_SLOT ]

MAX_SLOTS == MAX_NUM_CAT_SLOT + MAX_NUM_NONCAT_SLOT

Const(n, x) == [k \in 1..n |-> x]

\* an example with every count at capacity, every token valid and every
\* scorer output 0
BaseExample ==
    [ example_id_num |-> <<1, 0, 0, 0>>,
      service_id |-> 0,
      is_real_example |-> 1,
      utterance_mask |-> Const(MaxTokens, 1),
      num_categorical_slot_values |-> Const(MAX_NUM_CAT_SLOT, MAX_NUM_VALUE_PER_CAT_SLOT),
      num_intents |-> MAX_NUM_INTENT,
      req_num_slots |-> MAX_SLOTS,
      start_char_idx |-> [t \in 1..MaxTokens |-> 2 * (t - 1)],
      end_char_idx |-> [t \in 1..MaxTokens |-> 2 * (t - 1) + 1],
      categorical_slot_status |-> Const(MAX_NUM_CAT_SLOT, 0),
      noncategorical_slot_status |-> Const(MAX_NUM_NONCAT_SLOT, 0),
      raw_intent |-> Const(MAX_NUM_INTENT + 1, 0),
      raw_req |-> Const(MAX_SLOTS, 0),
      raw_cat_value |-> Const(MAX_NUM_CAT_SLOT * MAX_NUM_VALUE_PER_CAT_SLOT, 0),
      raw_span |-> Const(MAX_NUM_NONCAT_SLOT * MaxTokens * 2, 0),
      raw_cat_status |-> Const(MAX_NUM_CAT_SLOT * 3, 0),
      raw_noncat_status |-> Const(MAX_NUM_NONCAT_SLOT * 3, 0) ]

\* s with the entries from position lo on replaced by those of r
Splice(s, lo, r) ==
    [k \in 1..Len(s) |-> IF k >= lo /\ k < lo + Len(r) THEN r[k - lo + 1] ELSE s[k]]

\* intents: every count and every scorer output, also one below the sentinel
IntentExamples(base) ==
    { [base EXCEPT !.num_intents = n, !.raw_intent = r] :
        n \in 0..MAX_NUM_INTENT,
        r \in Tuples(RawLogits \cup {NegativeLogit - 1}, MAX_NUM_INTENT + 1) }

\* requested slots: every count, and every output for one slot
ReqExamples(base) ==
    { [base EXCEPT !.req_num_slots = n, !.raw_req = Splice(@, s, <<x>>)] :
        n \in 0..MAX_SLOTS, s \in 1..MAX_SLOTS, x \in RawLogits }

\* categorical values: every count and every scorer output for one slot
CatExamples(base) ==
    { [base EXCEPT
          !.num_categorical_slot_values = Splice(@, s, <<n>>),
          !.raw_cat_value = Splice(@, (s - 1) * MAX_NUM_VALUE_PER_CAT_SLOT + 1, r)] :
        s \in 1..MAX_NUM_CAT_SLOT, n \in 0..MAX_NUM_VALUE_PER_CAT_SLOT,
        r \in Tuples(RawLogits, MAX_NUM_VALUE_PER_CAT_SLOT) }

\* slot status: every scorer output for one slot of either family
StatusExamples(base) ==
    { [base EXCEPT !.raw_cat_status = Splice(@, (s - 1) * 3 + 1, r)] :
        s \in 1..MAX_NUM_CAT_SLOT, r \in Tuples(RawLogits, 3) } \cup
    { [base EXCEPT !.raw_noncat_status = Splice(@, (s - 1) * 3 + 1, r)] :
        s \in 1..MAX_NUM_NONCAT_SLOT, r \in Tuples(RawLogits, 3) }

\* a token is masked (the scorer's output for it being the largest, 1) or
\* valid with any start and end output
TokenChoices ==
    { [mask |-> 0, start |-> 1, end |-> 1] } \cup
    { [mask |-> 1, start |-> a, end |-> b] : a \in RawLogits, b \in RawLogits }

\* spans: every utterance mask and every scorer output for one slot
SpanExamples(base) ==
    { [base EXCEPT
          !.utterance_mask = [t \in 1..MaxTokens |-> c[t].mask],
          !.raw_span = Splice(@, (s - 1) * MaxTokens * 2 + 1,
                              [k \in 1..(2 * MaxTokens) |->
                                  IF k % 2 = 1 THEN c[(k + 1) \div 2].start
                                  ELSE c[k \div 2].end])] :
        s \in 1..MAX_NUM_NONCAT_SLOT, c \in Tuples(TokenChoices, MaxTokens) }

DecodeExamples(base) ==
    IntentExamples(base) \cup ReqExamples(base) \cup CatExamples(base) \cup
    StatusExamples(base) \cup SpanExamples(base)

\* the examples of an evaluation run: turn t of a dialogue, the service, the
\* alignment, the requested slots, the mask and the scorer outputs changing
\* with the turn (the span scorer prefers token t)
RunExample(t) ==
    [BaseExample EXCEPT
        !.example_id_num = <<1, 0, t, t % 2>>,
        !.service_id = t % 2,
        !.start_char_idx = [k \in 1..MaxTokens |-> 2 * (k - 1) + t],
        !.end_char_idx = [k \in 1..MaxTokens |-> 2 * (k - 1) + 1 + t],
        !.req_num_slots = (2 * t) % (MAX_SLOTS + 1),
        !.raw_req = [k \in 1..MAX_SLOTS |-> IF k = MAX_SLOTS - t THEN 1 ELSE 0],
        !.utterance_mask = [k \in 1..MaxTokens |-> IF k + t <= MaxTokens THEN 1 ELSE 0],
        !.raw_intent = [k \in 1..(MAX_NUM_INTENT + 1) |-> IF k = 1 + (t % 2) THEN 1 ELSE 0],
        !.raw_span = [k \in 1..(MAX_NUM_NONCAT_SLOT * MaxTokens * 2) |->
                         IF ((k - 1) \div 2) % MaxTokens = t THEN 1 ELSE 0],
        !.categorical_slot_status = Const(MAX_NUM_CAT_SLOT, t % 3)]

RunExamples == { RunExample(t) : t \in 0..MaxTurn }

RunBatches == UNION { Tuples(RunExamples, n) : n \in 1..MaxRecords }

\* the data layer's collation: the examples stacked along dim 0
Stack(exs, field, rowshape) ==
    Tensor(<<Len(exs)>> \o rowshape, Concat([i \in 1..Len(exs) |-> exs[i][field]]))
Stack1(exs, field) == Tensor(<<Len(exs)>>, [i \in 1..Len(exs) |-> exs[i][field]])

Collate(exs) ==
    [ example_id_num |-> Stack(exs, "example_id_num", <<4>>),
      service_id |-> Stack1(exs, "service_id"),
      is_real_example |-> Stack1(exs, "is_real_example"),
      utterance_mask |-> Stack(exs, "utterance_mask", <<MaxTokens>>),
      num_categorical_slot_values |->
          Stack(exs, "num_categorical_slot_values", <<MAX_NUM_CAT_SLOT>>),
      num_intents |-> Stack1(exs, "num_intents"),
      req_num_slots |-> Stack1(exs, "req_num_slots"),
      start_char_idx |-> Stack(exs, "start_char_idx", <<MaxTokens>>),
      end_char_idx |-> Stack(exs, "end_char_idx", <<MaxTokens>>),
      categorical_slot_status |-> Stack(exs, "categorical_slot_status", <<MAX_NUM_CAT_SLOT>>),
      noncategorical_slot_status |->
          Stack(exs, "noncategorical_slot_status", <<MAX_NUM_NONCAT_SLOT>>),
      scorer |->
        [ intent |-> Stack(exs, "raw_intent", <<MAX_NUM_INTENT + 1>>),
          req |-> Stack(exs, "raw_req", <<MAX_SLOTS>>),
          cat_value |->
              Stack(exs, "raw_cat_value", <<MAX_NUM_CAT_SLOT, MAX_NUM_VALUE_PER_CAT_SLOT>>),
          span |-> Stack(exs, "raw_span", <<MAX_NUM_NONCAT_SLOT, MaxTokens, 2>>),
          cat_status |-> Stack(exs, "raw_cat_status", <<MAX_NUM_CAT_SLOT, 3>>),
          noncat_status |-> Stack(exs, "raw_noncat_status", <<MAX_NUM_NONCAT_SLOT, 3>>) ] ]

(***************************************************************************)
(* The evaluation loop: a forward pass puts its outputs, with the data     *)
(* layer's tensors the callback reads, under their names in the values of  *)
(* the step; eval_iter_callback decodes them and starts the next step with *)
(* empty values.                                                           *)
(***************************************************************************)
TensorNames ==
    { "example_id_num", "service_id", "is_real_example", "start_char_idx", "end_char_idx",
      "categorical_slot_status", "noncategorical_slot_status",
      "logit_intent_status", "logit_req_slot_status", "req_slot_mask",
      "logit_cat_slot_status", "logit_cat_slot_value", "logit_noncat_slot_status",
      "logit_noncat_slot_start", "logit_noncat_slot_end" }

EmptyTensors == [k \in TensorNames |-> << >>]
EmptyDict == [k \in {} |-> None]

\* examples waiting in the values of the step
Pending == SumSeq([c \in 1..Len(tensors.service_id) |-> tensors.service_id[c].shape[1]])

NumPredictions ==
    IF "predictions" \in DOMAIN global_vars THEN Len(global_vars.predictions) ELSE 0

Forward(batch) ==
    /\ ret = NoRet
    /\ call' = [fn |-> "forward", batch |-> batch]
    /\ LET out == forward(self, batch)
       IN  IF out.error # None
           THEN /\ ret' = <<out.error>>
                /\ UNCHANGED tensors
           ELSE /\ tensors' =
                     [ example_id_num |-> Append(tensors.example_id_num, batch.example_id_num),
                       service_id |-> Append(tensors.service_id, batch.service_id),
                       is_real_example |->
                           Append(tensors.is_real_example, batch.is_real_example),
                       start_char_idx |-> Append(tensors.start_char_idx, batch.start_char_idx),
                       end_char_idx |-> Append(tensors.end_char_idx, batch.end_char_idx),
                       categorical_slot_status |->
                           Append(tensors.categorical_slot_status,
                                  batch.categorical_slot_status),
                       noncategorical_slot_status |->
                           Append(tensors.noncategorical_slot_status,
                                  batch.noncategorical_slot_status),
                       logit_intent_status |->
                           Append(tensors.logit_intent_status, out.logit_intent_status),
                       logit_req_slot_status |->
                           Append(tensors.logit_req_slot_status, out.logit_req_slot_status),
                       req_slot_mask |-> Append(tensors.req_slot_mask, out.req_slot_mask),
                       logit_cat_slot_status |->
                           Append(tensors.logit_cat_slot_status, out.logit_cat_slot_status),
                       logit_cat_slot_value |->
                           Append(tensors.logit_cat_slot_value, out.logit_cat_slot_value),
                       logit_noncat_slot_status |->
                           Append(tensors.logit_noncat_slot_status,
                                  out.logit_noncat_slot_status),
                       logit_noncat_slot_start |->
                           Append(tensors.logit_noncat_slot_start,
                                  out.logit_noncat_slot_start),
                       logit_noncat_slot_end |->
                           Append(tensors.logit_noncat_slot_end, out.logit_noncat_slot_end) ]
                /\ UNCHANGED ret
    /\ UNCHANGED <<self, global_vars, files, log>>

eval_iter_callback_overwrite(tens, gv, ids_to_service_names_dict, eval_dataset) ==
    [predictions |-> Decoded(tens, ids_to_service_names_dict, eval_dataset)]

\* eval_iter_callback: the dict global_vars after the call
eval_iter_callback(tens, gv, ids_to_service_names_dict, eval_dataset) ==
    LET g == IF "predictions" \notin DOMAIN gv
             THEN [k \in DOMAIN gv \cup {"predictions"} |->
                      IF k = "predictions" THEN << >> ELSE gv[k]]
             ELSE gv
    IN  [g EXCEPT !.predictions = @ \o Decoded(tens, ids_to_service_names_dict, eval_dataset)]

EvalIterCallback ==
    /\ ret = NoRet
    /\ Pending > 0
    /\ global_vars' = eval_iter_callback(tensors, global_vars, ServiceNames, "dev")
    /\ tensors' = EmptyTensors
    /\ call' = [fn |-> "eval_iter_callback", tensors |-> tensors, batch |-> call.batch]
    /\ UNCHANGED <<self, ret, files, log>>

\* an evaluation run over batches of the run's examples, the model built in
\* any of the four status modes
Init ==
    /\ self \in { SGDModel_init(EmbeddingDim, m, SchemaConfig) : m \in StatusModes }
    /\ tensors = EmptyTensors
    /\ global_vars = EmptyDict
    /\ call = Idle
    /\ ret = NoRet
    /\ files = None
    /\ log = None

Next ==
    \/ \E exs \in RunBatches :
          /\ NumPredictions + Pending + Len(exs) <= MaxRecords
          /\ Forward(Collate(exs))
    \/ EvalIterCallback

Spec == Init /\ [][Next]_vars

\* one step on one example, over every input of each head in turn
InitDecode ==
    /\ self = SGDModel_init(EmbeddingDim, "cls_token", SchemaConfig)
    /\ tensors = EmptyTensors
    /\ global_vars = EmptyDict
    /\ call = Idle
    /\ ret = NoRet
    /\ files = None
    /\ log = None

NextDecode ==
    \/ /\ NumPredictions + Pending = 0
       /\ \E ex \in DecodeExamples(BaseExample) : Forward(Collate(<<ex>>))
    \/ EvalIterCallback

SpecDecode == InitDecode /\ [][NextDecode]_vars

(***************************************************************************)
(* Specification of _get_mask alone: the arguments are drawn in Init.      *)
(***************************************************************************)
\* one length per example, or one per example and slot
LengthShapes(n) == {<<b>> : b \in 1..n} \cup
                   UNION { {<<b, s>> : s \in 1..(n \div b)} : b \in 1..n }

MaskCalls(maxcap, maxelems) ==
    UNION { UNION { { [fn |-> "_get_mask",
                       logits |-> Full(sh \o <<c>>, x),
                       max_length |-> c,
                       actual_length |-> Tensor(sh, d)] :
                         d \in Tuples(0..c, Numel(sh)), x \in {0, 1} } :
                    sh \in LengthShapes(maxelems) } : c \in 0..maxcap }

InitMask ==
    /\ call \in MaskCalls(MaxCap, MaxMaskElems)
    /\ ret = NoRet
    /\ self = None
    /\ tensors = None
    /\ global_vars = None
    /\ files = None
    /\ log = None

ApplyGetMask ==
    /\ call.fn = "_get_mask"
    /\ ret = NoRet
    /\ ret' = get_mask(call.logits, call.max_length, call.actual_length)
    /\ UNCHANGED <<self, tensors, global_vars, call, files, log>>

NextMask == ApplyGetMask

SpecMask == InitMask /\ [][NextMask]_vars

(***************************************************************************)
(* Specification of the span index arithmetic alone: max_span_index is a   *)
(* flat index into the T x T score matrix, T = max_num_tokens.             *)
(***************************************************************************)
SpanIndexCalls(maxtokens) ==
    UNION { { [fn |-> "span_index",
               max_num_tokens |-> T,
               max_span_index |-> Tensor(<<1, 1>>, <<k>>)] : k \in 0..(T * T - 1) } :
            T \in 1..maxtokens }

InitDivMod ==
    /\ call \in SpanIndexCalls(MaxDivTokens)
    /\ ret = NoRet
    /\ self = None
    /\ tensors = None
    /\ global_vars = None
    /\ files = None
    /\ log = None

\* span_start_index = torch.div(max_span_index, max_num_tokens);
\* span_end_index = torch.fmod(max_span_index, max_num_tokens)
ApplySpanIndex ==
    /\ call.fn = "span_index"
    /\ ret = NoRet
    /\ ret' = <<Div(call.max_span_index, call.max_num_tokens),
                Fmod(call.max_span_index, call.max_num_tokens)>>
    /\ UNCHANGED <<self, tensors, global_vars, call, files, log>>

NextDivMod == ApplySpanIndex

SpecDivMod == InitDivMod /\ [][NextDivMod]_vars

(***************************************************************************)
(* Specification of the status head alone: a model is constructed in a     *)
(* configured mode and _get_slots_status is applied to the shapes forward  *)
(* hands it.  tensors holds the shapes of the encoder's outputs.           *)
(***************************************************************************)
\* the four modes, and one the constructor does not know
ConfiguredModes == StatusModes \cup {"average_tokens"}

StatusConfigs(maxslots) ==
    { [ MAX_NUM_INTENT |-> MAX_NUM_INTENT,
        MAX_NUM_CAT_SLOT |-> c,
        MAX_NUM_VALUE_PER_CAT_SLOT |-> MAX_NUM_VALUE_PER_CAT_SLOT,
        MAX_NUM_NONCAT_SLOT |-> n ] : c \in 1..maxslots, n \in 1..maxslots }

EncoderShapes(maxslots) ==
    { [ token_embeddings |-> <<B, T, EmbeddingDim>>,
        encoded_utterance |-> <<B, EmbeddingDim>> ] :
        B \in 1..maxslots, T \in 1..(2 * maxslots) }

InitStatus ==
    /\ call \in { [fn |-> "__init__", slots_status_model |-> m, schema_config |-> cfg] :
                    m \in ConfiguredModes, cfg \in StatusConfigs(MaxStatusSlots) }
    /\ tensors \in EncoderShapes(MaxStatusSlots)
    /\ self = None
    /\ global_vars = None
    /\ ret = NoRet
    /\ files = None
    /\ log = None

Construct ==
    /\ call.fn = "__init__"
    /\ self' = SGDModel_init(EmbeddingDim, call.slots_status_model, call.schema_config)
    /\ call' = [fn |-> "constructed"]
    /\ UNCHANGED <<tensors, global_vars, ret, files, log>>

\* the call of _get_slots_status in forward: the slot embeddings are the
\* schema's, one row per slot capacity
ApplyGetSlotsStatus ==
    /\ call.fn = "constructed"
    /\ LET B == tensors.token_embeddings[1]
           D == self.embedding_dim
           C == self.schema_config.MAX_NUM_CAT_SLOT
           N == self.schema_config.MAX_NUM_NONCAT_SLOT
       IN  /\ call' = [fn |-> "_get_slots_status",
                       cat_slot_emb |-> <<B, C, D>>,
                       noncat_slot_emb |-> <<B, N, D>>]
           /\ ret' = <<get_slots_status(self, <<B, C, D>>, <<B, N, D>>,
                                         tensors.token_embeddings, tensors.encoded_utterance,
                                         <<B, C, 2 * D, 3>>, <<B, N, 2 * D, 3>>)>>
    /\ UNCHANGED <<self, tensors, global_vars, files, log>>

NextStatus == Construct \/ ApplyGetSlotsStatus

SpecStatus == InitStatus /\ [][NextStatus]_vars

(***************************************************************************)
(* bert_nm.py: the constructor of the BERT encoder module.  An optional    *)
(* argument is << >> when it is None and <<v>> when it has the value v.     *)
(* Specification of the constructor alone: the arguments are drawn in      *)
(* Init.                                                                   *)
(***************************************************************************)
PretrainedModelNames == {"bert-base-uncased", "bert-large-uncased"}
ConfigFilenames == {"bert_config.json", "small_config.json"}

Optional(S) == {<< >>} \cup {<<v>> : v \in S}

OnlyOneError ==
    <<"ValueError",
      "Only one of pretrained_model_name, vocab_size, or config_filename should be passed into the BERT constructor.">>
EitherError ==
    <<"ValueError",
      "Either pretrained_model_name or vocab_size must be passed into the BERT constructor">>

\* total: the number of the three source arguments that are not None
Total(pretrained_model_name, config_filename, vocab_size) ==
    (IF pretrained_model_name # << >> THEN 1 ELSE 0)
    + (IF config_filename # << >> THEN 1 ELSE 0)
    + (IF vocab_size # << >> THEN 1 ELSE 0)

TotalRejected_many(total) == total > 1

\* if total != 1: raise ValueError
TotalRejected(total) == total # 1

\* BertConfig(vocab_size_or_config_json_file=vocab_size, hidden_size=..., ...)
BertConfig(vocab_size, hidden_size) ==
    [source |-> "BertConfig", vocab_size |-> vocab_size, hidden_size |-> hidden_size]

\* BertConfig.from_json_file(config_filename): the configuration the file
\* holds
BertConfig_from_json_file(config_filename) ==
    [source |-> config_filename,
     vocab_size |-> IF config_filename = "bert_config.json" THEN 30522 ELSE 1000,
     hidden_size |-> IF config_filename = "bert_config.json" THEN 768 ELSE 256]

\* BertModel(config)
BertModel(config) == [weights |-> "initialised", config |-> config]

\* BertModel.from_pretrained(pretrained_model_name): the released weights
\* with their configuration
BertModel_from_pretrained(pretrained_model_name) ==
    [weights |-> pretrained_model_name,
     config |-> [source |-> pretrained_model_name,
                 vocab_size |-> 30522,
                 hidden_size |-> IF pretrained_model_name = "bert-base-uncased"
                                 THEN 768 ELSE 1024]]

\* BERT.__init__: the exception raised (<< >> when none), the encoder models
\* built on the way, and the attributes of the module constructed
BERT_init(pretrained_model_name, config_filename, vocab_size, hidden_size) ==
    LET total == Total(pretrained_model_name, config_filename, vocab_size)
        built(model) ==
            [error |-> << >>,
             built |-> <<model>>,
             module |-> [bert |-> model,
                         config |-> model.config,
                         _hidden_size |-> model.config.hidden_size]]
    IN  IF TotalRejected(total)
        THEN [error |-> OnlyOneError, built |-> << >>, module |-> << >>]
        ELSE IF vocab_size # << >>
        THEN built(BertModel(BertConfig(vocab_size[1], hidden_size)))
        ELSE IF pretrained_model_name # << >>
        THEN built(BertModel_from_pretrained(pretrained_model_name[1]))
        ELSE IF config_filename # << >>
        THEN built(BertModel(BertConfig_from_json_file(config_filename[1])))
        ELSE [error |-> EitherError, built |-> << >>, module |-> << >>]

BertCalls(maxvocab, maxhidden) ==
    { [fn |-> "BERT.__init__",
       pretrained_model_name |-> p,
       config_filename |-> c,
       vocab_size |-> v,
       hidden_size |-> h] :
        p \in Optional(PretrainedModelNames), c \in Optional(ConfigFilenames),
        v \in Optional(1..maxvocab), h \in 1..maxhidden }

InitBert ==
    /\ call \in BertCalls(MaxVocab, MaxHidden)
    /\ ret = NoRet
    /\ self = None
    /\ tensors = None
    /\ global_vars = None
    /\ files = None
    /\ log = None

\* the constructor runs: self becomes the module constructed (<< >> when
\* the constructor raised)
ConstructBert ==
    /\ call.fn = "BERT.__init__"
    /\ ret = NoRet
    /\ LET out == BERT_init(call.pretrained_model_name, call.config_filename,
                            call.vocab_size, call.hidden_size)
       IN  /\ ret' = <<out>>
           /\ self' = out.module
    /\ UNCHANGED <<tensors, global_vars, call, files, log>>

NextBert == ConstructBert

SpecBert == InitBert /\ [][NextBert]_vars

(***************************************************************************)
(* Properties of the BERT constructor (SpecBert).                          *)
(***************************************************************************)
BertConstructed == call.fn = "BERT.__init__" /\ ret # NoRet
\* the source arguments of the call that are not None
Supplied ==
    { a \in {"pretrained_model_name", "config_filename", "vocab_size"} : call[a] # << >> }

\* C12: the BERT constructor raises the first ValueError, no encoder model
\* having been built, whenever 0, 2 or 3 of pretrained_model_name,
\* config_filename and vocab_size are not None; when exactly one is it
\* raises nothing and builds one model, from that source; the second
\* ValueError, of the branch after the source dispatch, is never raised.
C12_ExactlyOneSourceOrValueError ==
    BertConstructed =>
        LET out == ret[1]
        IN  /\ Cardinality(Supplied) # 1 =>
                  /\ out.error = OnlyOneError
                  /\ out.built = << >>
                  /\ self = << >>
            /\ Cardinality(Supplied) = 1 =>
                  /\ out.error = << >>
                  /\ Len(out.built) = 1
                  /\ self.bert = out.built[1]
                  /\ self._hidden_size = self.config.hidden_size
                  /\ Supplied = {"vocab_size"} =>
                        /\ self.config.source = "BertConfig"
                        /\ self.config.vocab_size = call.vocab_size[1]
                        /\ self.config.hidden_size = call.hidden_size
                  /\ Supplied = {"pretrained_model_name"} =>
                        self.bert.weights = call.pretrained_model_name[1]
                  /\ Supplied = {"config_filename"} =>
                        self.config.source = call.config_filename[1]
            /\ out.error # EitherError

\* constructed from a configuration file alone, the last source the
\* dispatch looks at
C12_Witness ==
    /\ BertConstructed
    /\ Supplied = {"config_filename"}
    /\ ret[1].error = << >>
    /\ self.config.source = "small_config.json"

(***************************************************************************)
(* sgd_callback.py: eval_epochs_done_callback and evaluate.  The records   *)
(* of global_vars['predictions'] are kept as the dialogue frames the       *)
(* serializer writes from them: the service of the frame and its state,    *)
(* which is the reference state ("gold") or not.  The serializer, the      *)
(* dataset reader and the metric computation are collaborators known by    *)
(* their interface.  files maps a path to its content, << >> when the file *)
(* does not exist and <<content>> when it does.                            *)
(***************************************************************************)
SEEN_SERVICES == "#SEEN_SERVICES"
UNSEEN_SERVICES == "#UNSEEN_SERVICES"
ALL_SERVICES == "#ALL_SERVICES"

Frames == { [service |-> ServiceNames[i], state |-> st] :
              i \in 1..Len(ServiceNames), st \in {"gold", "other"} }
PredictionLists(maxframes) == UNION { Tuples(Frames, n) : n \in 0..maxframes }

\* the schema files under data_dir: the services of the evaluated split and
\* of the train split
SchemaFiles == [eval |-> {ServiceNames[i] : i \in 1..Len(ServiceNames)},
                train |-> {ServiceNames[1]}]

\* get_in_domain_services(schema of the split, schema of train)
get_in_domain_services(schema, train_schema) == schema \cap train_schema

\* pred_utils.write_predictions_to_file: the dialogue files of
\* prediction_dir rewritten from the predictions
write_predictions_to_file(predictions, prediction_dir) ==
    [prediction_dir EXCEPT !.dialogues = predictions]

\* get_dataset_as_dict(os.path.join(prediction_dir, "*.json"))
get_dataset_as_dict(dir) == dir.dialogues

\* the metrics of a list of frames: how many there are and how many carry
\* the state of the reference
FrameMetrics(dataset_ref, frames) ==
    [frames |-> Len(frames),
     correct |-> Len(SelectSeq(frames, LAMBDA f : f.state = dataset_ref.state))]

\* get_metrics: the metrics over the frames of the seen services, of the
\* unseen services and of all services
get_metrics(dataset_ref, dataset_hyp, eval_services, in_domain_services) ==
    [k \in {SEEN_SERVICES, UNSEEN_SERVICES, ALL_SERVICES} |->
        LET scope == IF k = SEEN_SERVICES THEN eval_services \cap in_domain_services
                     ELSE IF k = UNSEEN_SERVICES THEN eval_services \ in_domain_services
                     ELSE eval_services
        IN  FrameMetrics(dataset_ref,
                         SelectSeq(dataset_hyp, LAMBDA f : f.service \in scope))]

evaluate_return_seen(all_metric_aggregate) == all_metric_aggregate[SEEN_SERVICES]

\* return all_metric_aggregate[ALL_SERVICES]
evaluate_return(all_metric_aggregate) == all_metric_aggregate[ALL_SERVICES]

\* the locals of evaluate not assigned yet
NoLocals == [dataset_ref |-> << >>, dataset_hyp |-> << >>, all_metric_aggregate |-> << >>]

InitEpoch ==
    /\ global_vars \in { [predictions |-> ps] : ps \in PredictionLists(MaxFrames) }
    /\ files \in { [ data_dir |-> [schema |-> SchemaFiles, dialogues |-> [state |-> "gold"]],
                     prediction_dir |-> [dialogues |-> old, per_frame |-> << >>],
                     output_metric_file |-> << >> ] :
                   old \in PredictionLists(1) }
    /\ log = << >>
    /\ call = [fn |-> "eval_epochs_done_callback", pc |-> "write_predictions_to_file",
               locals |-> NoLocals]
    /\ ret = NoRet
    /\ self = None
    /\ tensors = None

\* eval_epochs_done_callback up to its call of evaluate
WritePredictions ==
    /\ call.pc = "write_predictions_to_file"
    /\ files' = [files EXCEPT !.prediction_dir =
                    write_predictions_to_file(global_vars.predictions, @)]
    /\ call' = [call EXCEPT !.pc = "get_dataset_as_dict"]
    /\ UNCHANGED <<self, tensors, global_vars, ret, log>>

\* evaluate: the reference and the predicted dialogues are read
ReadDatasets ==
    /\ call.pc = "get_dataset_as_dict"
    /\ call' = [call EXCEPT !.pc = "get_metrics",
                            !.locals.dataset_ref = <<files.data_dir.dialogues>>,
                            !.locals.dataset_hyp = <<get_dataset_as_dict(files.prediction_dir)>>]
    /\ UNCHANGED <<self, tensors, global_vars, ret, files, log>>

\* evaluate: all_metric_aggregate, _ = get_metrics(...)
GetMetrics ==
    /\ call.pc = "get_metrics"
    /\ LET schema == files.data_dir.schema
       IN  call' = [call EXCEPT !.pc = "logging.info",
                                !.locals.all_metric_aggregate =
                                    <<get_metrics(call.locals.dataset_ref[1],
                                                  call.locals.dataset_hyp[1],
                                                  schema.eval,
                                                  get_in_domain_services(schema.eval,
                                                                         schema.train))>>]
    /\ UNCHANGED <<self, tensors, global_vars, ret, files, log>>

\* evaluate: the three logging.info calls
LogMetrics ==
    /\ call.pc = "logging.info"
    /\ LET agg == call.locals.all_metric_aggregate[1]
       IN  log' = log \o << <<SEEN_SERVICES, agg[SEEN_SERVICES]>>,
                            <<UNSEEN_SERVICES, agg[UNSEEN_SERVICES]>>,
                            <<ALL_SERVICES, agg[ALL_SERVICES]>> >>
    /\ call' = [call EXCEPT !.pc = "json.dump"]
    /\ UNCHANGED <<self, tensors, global_vars, ret, files>>

\* evaluate: the aggregate and the per-frame files are written
WriteMetrics ==
    /\ call.pc = "json.dump"
    /\ files' = [files EXCEPT !.output_metric_file = <<call.locals.all_metric_aggregate[1]>>,
                              !.prediction_dir.per_frame = <<call.locals.dataset_hyp[1]>>]
    /\ call' = [call EXCEPT !.pc = "return"]
    /\ UNCHANGED <<self, tensors, global_vars, ret, log>>

\* evaluate returns, and eval_epochs_done_callback returns its value
ReturnMetrics ==
    /\ call.pc = "return"
    /\ ret' = <<evaluate_return(call.locals.all_metric_aggregate[1])>>
    /\ call' = [call EXCEPT !.pc = "returned"]
    /\ UNCHANGED <<self, tensors, global_vars, files, log>>

NextEpoch ==
    \/ WritePredictions
    \/ ReadDatasets
    \/ GetMetrics
    \/ LogMetrics
    \/ WriteMetrics
    \/ ReturnMetrics

SpecEpoch == InitEpoch /\ [][NextEpoch]_vars

(***************************************************************************)
(* Properties of eval_epochs_done_callback and evaluate (SpecEpoch).       *)
(***************************************************************************)
EpochCall == call.fn = "eval_epochs_done_callback"
\* the metrics of the accumulated predictions, counted directly
\* over the services of a scope
Expected(services) ==
    LET ps == global_vars.predictions
        in_scope == { i \in 1..Len(ps) : ps[i].service \in services }
    IN  [frames |-> Cardinality(in_scope),
         correct |-> Cardinality({ i \in in_scope : ps[i].state = "gold" })]
SeenServices == {ServiceNames[1]}
UnseenServices == {ServiceNames[i] : i \in 2..Len(ServiceNames)}

\* C14: eval_epochs_done_callback writes the accumulated predictions to the
\* prediction directory before the metrics are computed from it (the
\* metrics are those of global_vars['predictions'], not of what the
\* directory held before); the value returned is the all-services mapping;
\* before the return the seen, unseen and all-services mappings have been
\* logged, in that order, and the aggregate of the three scopes is in the
\* metrics file.
C14_WriteThenEvaluateReturnsAll ==
    EpochCall =>
        /\ call.locals.dataset_hyp # << >> =>
              /\ files.prediction_dir.dialogues = global_vars.predictions
              /\ call.locals.dataset_hyp[1] = global_vars.predictions
        /\ call.locals.all_metric_aggregate # << >> =>
              LET agg == call.locals.all_metric_aggregate[1]
              IN  /\ agg[SEEN_SERVICES] = Expected(SeenServices)
                  /\ agg[UNSEEN_SERVICES] = Expected(UnseenServices)
                  /\ agg[ALL_SERVICES] = Expected(SeenServices \cup UnseenServices)
        /\ files.output_metric_file # << >> =>
              /\ log = << <<SEEN_SERVICES, Expected(SeenServices)>>,
                          <<UNSEEN_SERVICES, Expected(UnseenServices)>>,
                          <<ALL_SERVICES, Expected(SeenServices \cup UnseenServices)>> >>
              /\ files.output_metric_file = call.locals.all_metric_aggregate
        /\ ret # NoRet =>
              /\ ret[1] = Expected(SeenServices \cup UnseenServices)
              /\ Len(log) = 3
              /\ files.output_metric_file # << >>
              /\ DOMAIN files.output_metric_file[1] =
                    {SEEN_SERVICES, UNSEEN_SERVICES, ALL_SERVICES}
              /\ files.prediction_dir.per_frame = <<global_vars.predictions>>

\* the callback has returned on predictions for a seen and an unseen
\* service, and the all-services mapping returned is neither of the two
\* other mappings in the metrics file
C14_Witness ==
    /\ EpochCall
    /\ ret # NoRet
    /\ Len(global_vars.predictions) = MaxFrames
    /\ Expected(SeenServices).frames > 0
    /\ Expected(UnseenServices).frames > 0
    /\ Expected(SeenServices).correct # Expected(UnseenServices).correct
    /\ ret[1] # files.output_metric_file[1][SEEN_SERVICES]
    /\ ret[1] # files.output_metric_file[1][UNSEEN_SERVICES]

(***************************************************************************)
(* Properties of _get_mask (SpecMask).                                     *)
(***************************************************************************)
MaskReturned == call.fn = "_get_mask" /\ ret # NoRet

\* C1: for every capacity C and lengths 0 <= len <= C, the mask _get_mask
\* returns has one row of C entries per length, and entry i (0 <= i < C) of
\* the row of a length is true exactly when i < that length: it depends on
\* no other length and not on the contents of logits.
C1_MaskTrueExactlyBelowLength ==
    MaskReturned =>
        LET mask == ret[1]
            C == call.max_length
            n == Len(call.actual_length.data)
        IN  /\ mask.shape = call.actual_length.shape \o <<C>>
            /\ Len(mask.data) = n * C
            /\ \A e \in 1..n : \A i \in 0..(C - 1) :
                  mask.data[(e - 1) * C + i + 1] = (i < call.actual_length.data[e])

\* a call with per-slot lengths in which one slot is full, one is empty and
\* one lies strictly between
C1_Witness ==
    /\ MaskReturned
    /\ Len(call.actual_length.shape) = 2
    /\ call.max_length = MaxCap
    /\ \E a, b, c \in 1..Len(call.actual_length.data) :
          /\ call.actual_length.data[a] = 0
          /\ call.actual_length.data[b] = MaxCap
          /\ call.actual_length.data[c] \in 1..(MaxCap - 1)

(***************************************************************************)
(* Properties of the span index arithmetic (SpecDivMod).                   *)
(***************************************************************************)
\* C7: for every T >= 1 and every flat index k in [0, T*T), the decoded
\* pair (start, end) = (div(k, T), fmod(k, T)) has 0 <= start < T,
\* 0 <= end < T and start * T + end = k.
C7_SpanIndexRoundTrip ==
    (call.fn = "span_index" /\ ret # NoRet) =>
        LET T == call.max_num_tokens
            k == call.max_span_index.data[1]
            start == ret[1].data[1]
            end == ret[2].data[1]
        IN  /\ start \in 0..(T - 1)
            /\ end \in 0..(T - 1)
            /\ start * T + end = k
            /\ ret[1].shape = call.max_span_index.shape
            /\ ret[2].shape = call.max_span_index.shape

\* the last cell of the largest matrix, decoded
C7_Witness ==
    /\ call.fn = "span_index"
    /\ ret # NoRet
    /\ call.max_num_tokens = MaxDivTokens
    /\ call.max_span_index.data[1] = MaxDivTokens * MaxDivTokens - 1
    /\ ret[1].data[1] = MaxDivTokens - 1
    /\ ret[2].data[1] = MaxDivTokens - 1

(***************************************************************************)
(* Properties of the status head (SpecStatus).                             *)
(***************************************************************************)
\* C4: in each of the four status-scoring modes, a model constructed in
\* that mode completes _get_slots_status (the utterance having at least as
\* many tokens as the mode reads) and returns categorical status logits of
\* shape (batch, MAX_NUM_CAT_SLOT, 3) and non-categorical status logits of
\* shape (batch, MAX_NUM_NONCAT_SLOT, 3).
C4_AllModesReturnStatusLogits ==
    ( /\ call.fn = "_get_slots_status"
      /\ self.slots_status_model \in StatusModes
      /\ tensors.token_embeddings[2] >=
            self.schema_config.MAX_NUM_CAT_SLOT + self.schema_config.MAX_NUM_NONCAT_SLOT ) =>
        /\ ret[1].error = None
        /\ ret[1].cat = <<tensors.token_embeddings[1], self.schema_config.MAX_NUM_CAT_SLOT, 3>>
        /\ ret[1].noncat =
              <<tensors.token_embeddings[1], self.schema_config.MAX_NUM_NONCAT_SLOT, 3>>

\* C20: when the configured status-scoring mode is none of the four modes,
\* SGDModel.__init__ completes without raising and creates no
\* status-scoring layer: the mode is not rejected at construction; the
\* call of _get_slots_status in the first forward pass then fails, no
\* branch having assigned the status logits it returns.
C20_UnknownModeFailsAtForward ==
    ( /\ call.fn \in {"constructed", "_get_slots_status"}
      /\ self.slots_status_model \notin StatusModes ) =>
        /\ DOMAIN self.layers = {}
        /\ call.fn = "constructed" => ret = NoRet
        /\ call.fn = "_get_slots_status" =>
              /\ ret # NoRet
              /\ ret[1].error = "UnboundLocalError"

\* a model configured with a mode the constructor does not know has been
\* constructed and its _get_slots_status has raised
C20_Witness ==
    /\ call.fn = "_get_slots_status"
    /\ self.slots_status_model = "average_tokens"
    /\ DOMAIN self.layers = {}
    /\ ret[1].error = "UnboundLocalError"

(***************************************************************************)
(* Properties of the decoding of one example (SpecDecode).                 *)
(***************************************************************************)
\* the step's example has been decoded; Rec is its record
DecodedOne == call.fn = "eval_iter_callback" /\ NumPredictions = 1
Rec == global_vars.predictions[1]
NoncatSlots == 1..MAX_NUM_NONCAT_SLOT
CatSlots == 1..MAX_NUM_CAT_SLOT
Tokens == 0..(MaxTokens - 1)

\* the scorer's raw start (c = 0) or end (c = 1) logit of slot s, token i
RawSpan(s, i, c) == call.batch.scorer.span.data[((s - 1) * MaxTokens + i) * 2 + c + 1]
TokenValid(i) == call.batch.utterance_mask.data[i + 1] # 0

\* the logits forward returned for the example, as the callback received
\* them, and the start and end probabilities of its tokens
Logit(name) == call.tensors[name][1]
StartProb == Softmax(Logit("logit_noncat_slot_start")).data
EndProb == Softmax(Logit("logit_noncat_slot_end")).data

\* C2: for every non-categorical slot the decoded span has
\* noncat_slot_start <= noncat_slot_end, whatever the start and end logits.
C2_SpanStartNotAfterEnd ==
    DecodedOne =>
        \A s \in NoncatSlots : Rec.noncat_slot_start[s] <= Rec.noncat_slot_end[s]

\* the start logits peak at the last token and the end logits at the first
C2_Witness ==
    /\ DecodedOne
    /\ \A i \in Tokens : TokenValid(i)
    /\ \A i \in Tokens :
          /\ RawSpan(1, i, 0) = (IF i = MaxTokens - 1 THEN 1 ELSE 0)
          /\ RawSpan(1, i, 1) = (IF i = 0 THEN 1 ELSE 0)
    /\ Rec.noncat_slot_start[1] <= Rec.noncat_slot_end[1]

InUnit(p) == FLeq(FZero, p) /\ FLeq(p, FOne)

\* C3: every confidence field of a record (cat_slot_status_p,
\* cat_slot_value_p, noncat_slot_status_p and the span confidence
\* noncat_slot_p) lies in [0, 1].
C3_ConfidencesInUnitInterval ==
    DecodedOne =>
        /\ \A s \in CatSlots : InUnit(Rec.cat_slot_status_p[s]) /\ InUnit(Rec.cat_slot_value_p[s])
        /\ \A s \in NoncatSlots :
              InUnit(Rec.noncat_slot_status_p[s]) /\ InUnit(Rec.noncat_slot_p[s])

\* C5: on every axis the decoder reduces, a padded position (intent index
\* >= num_intents + 1, value index >= num_categorical_slot_values of the
\* slot, token outside the utterance mask) carries the negative sentinel in
\* the logits forward returns, and is not the decoded index while the axis
\* has a real position.
C5_PaddingNeverSelected ==
    DecodedOne =>
        LET ni == call.batch.num_intents.data[1] + 1
            V == MAX_NUM_VALUE_PER_CAT_SLOT
        IN  /\ \A i \in 0..MAX_NUM_INTENT :
                  i >= ni => Logit("logit_intent_status").data[i + 1] = NegativeLogit
            /\ Rec.intent_status[1] < ni
            /\ \A s \in CatSlots :
                  LET k == call.batch.num_categorical_slot_values.data[s]
                  IN  /\ \A v \in 0..(V - 1) :
                            v >= k =>
                               Logit("logit_cat_slot_value").data[(s - 1) * V + v + 1]
                                  = NegativeLogit
                      /\ k >= 1 => Rec.cat_slot_value[s] < k
            /\ \A s \in NoncatSlots :
                  /\ \A i \in Tokens :
                        ~TokenValid(i) =>
                           /\ Logit("logit_noncat_slot_start").data[(s - 1) * MaxTokens + i + 1]
                                 = NegativeLogit
                           /\ Logit("logit_noncat_slot_end").data[(s - 1) * MaxTokens + i + 1]
                                 = NegativeLogit
                  /\ (\E i \in Tokens : TokenValid(i)) =>
                        /\ TokenValid(Rec.noncat_slot_start[s])
                        /\ TokenValid(Rec.noncat_slot_end[s])

\* total[i, j] of slot s as the claim states it, from the start and end
\* probabilities sp and ep
SpanTotal(sp, ep, s, i, j) ==
    IF i > j THEN FZero
    ELSE FAdd(sp[(s - 1) * MaxTokens + i + 1], ep[(s - 1) * MaxTokens + j + 1])

\* C6: per slot, with total[i, j] = start_prob[i] + end_prob[j] and
\* total[i, j] = 0 for i > j, the decoded (start, end) is a cell of maximal
\* total, every cell of lower flat index i * T + j has a strictly smaller
\* total, and noncat_slot_p is the total of the decoded cell.
C6_SpanIsFirstMaximum ==
    DecodedOne =>
        \A sp \in {StartProb} : \A ep \in {EndProb} : \A s \in NoncatSlots :
            LET start == Rec.noncat_slot_start[s]
                end == Rec.noncat_slot_end[s]
                best == SpanTotal(sp, ep, s, start, end)
            IN  /\ start \in Tokens
                /\ end \in Tokens
                /\ Rec.noncat_slot_p[s] = best
                /\ \A i, j \in Tokens :
                      /\ FLeq(SpanTotal(sp, ep, s, i, j), best)
                      /\ i * MaxTokens + j < start * MaxTokens + end =>
                            FLess(SpanTotal(sp, ep, s, i, j), best)

\* a decoded span whose total is shared by a cell of higher flat index, and
\* which is not the first cell of the matrix
C6_Witness ==
    /\ DecodedOne
    /\ Rec.noncat_slot_start[1] * MaxTokens + Rec.noncat_slot_end[1] > 0
    /\ \E i, j \in Tokens :
          /\ i * MaxTokens + j > Rec.noncat_slot_start[1] * MaxTokens + Rec.noncat_slot_end[1]
          /\ SpanTotal(StartProb, EndProb, 1, i, j) = Rec.noncat_slot_p[1]

\* the scorer's raw value logit of slot s, value v
RawValue(s, v) == call.batch.scorer.cat_value.data[(s - 1) * MAX_NUM_VALUE_PER_CAT_SLOT + v + 1]

RawReq(s) == call.batch.scorer.req.data[s]
ReqSlots == 1..MAX_SLOTS

RECURSIVE FSum(_)
FSum(s) == IF s = << >> THEN FZero ELSE FAdd(Head(s), FSum(Tail(s)))

\* C11: the decoded req_slot_status of a requested slot is a function of
\* that slot's own logit only (the logistic function of it): it is the same
\* whatever the logits of the other slots and whatever req_num_slots, and
\* the probabilities of one example are not normalised: with no logit
\* below 0 each is at least 1/2 and their sum exceeds 1.
C11_ReqStatusOfOwnLogitOnly ==
    DecodedOne =>
        /\ Len(Rec.req_slot_status) = MAX_SLOTS
        /\ \A s \in ReqSlots : Rec.req_slot_status[s] = Sigmoid(RawReq(s))
        /\ (\A s \in ReqSlots : RawReq(s) >= 0) => FLess(FOne, FSum(Rec.req_slot_status))

\* one slot's logit is raised above the others', beyond the slots the
\* service has: the others keep probability 1/2 and the sum exceeds 1
C11_Witness ==
    /\ DecodedOne
    /\ call.batch.req_num_slots.data[1] < MAX_SLOTS
    /\ RawReq(MAX_SLOTS) = 1
    /\ \A s \in ReqSlots \ {MAX_SLOTS} : RawReq(s) = 0 /\ Rec.req_slot_status[s] = Frac(1, 2)
    /\ Rec.req_slot_status[MAX_SLOTS] = Frac(2, 3)
    /\ FLess(FOne, FSum(Rec.req_slot_status))

\* the scorer's raw intent logit of index i (index 0 is the NONE intent)
RawIntent(i) == call.batch.scorer.intent.data[i + 1]

\* C15: _get_intents returns max_intents + 1 logits per example, the NONE
\* intent at index 0; the logits of the indices up to num_intents are the
\* scorer's and those of the indices from num_intents + 1 on are the
\* sentinel, so index 0 is never masked (also when num_intents = 0); and
\* when every real logit exceeds the sentinel the intent decoded by argmax
\* lies in [0, num_intents].
C15_NoneIntentNeverMasked ==
    DecodedOne =>
        LET n == call.batch.num_intents.data[1]
            logits == Logit("logit_intent_status")
        IN  /\ logits.shape = <<1, MAX_NUM_INTENT + 1>>
            /\ Len(logits.data) = MAX_NUM_INTENT + 1
            /\ logits.data[1] = RawIntent(0)
            /\ \A i \in 0..MAX_NUM_INTENT :
                  logits.data[i + 1] = (IF i <= n THEN RawIntent(i) ELSE NegativeLogit)
            /\ (\A i \in 0..n : RawIntent(i) > NegativeLogit) =>
                  Rec.intent_status[1] \in 0..n

\* a service without intents: the scorer prefers a padded index and the
\* NONE intent is decoded
C15_Witness ==
    /\ DecodedOne
    /\ call.batch.num_intents.data[1] = 0
    /\ RawIntent(0) > NegativeLogit
    /\ RawIntent(0) < RawIntent(1)
    /\ Logit("logit_intent_status").data[1] = RawIntent(0)
    /\ Rec.intent_status[1] = 0

\* C17: _get_noncategorical_slot_values returns the start and the end
\* logits as two tensors of shape (batch, S, T); for every slot, the start
\* and the end logit of a token invalid under the utterance mask are the
\* negative sentinel, and those of a valid token are the scorer's raw
\* outputs.
C17_SpanLogitsMaskedByUtterance ==
    DecodedOne =>
        LET start == Logit("logit_noncat_slot_start")
            end == Logit("logit_noncat_slot_end")
        IN  /\ start.shape = <<1, MAX_NUM_NONCAT_SLOT, MaxTokens>>
            /\ end.shape = <<1, MAX_NUM_NONCAT_SLOT, MaxTokens>>
            /\ Len(start.data) = MAX_NUM_NONCAT_SLOT * MaxTokens
            /\ Len(end.data) = MAX_NUM_NONCAT_SLOT * MaxTokens
            /\ \A s \in NoncatSlots : \A i \in Tokens :
                  /\ start.data[(s - 1) * MaxTokens + i + 1] =
                        (IF TokenValid(i) THEN RawSpan(s, i, 0) ELSE NegativeLogit)
                  /\ end.data[(s - 1) * MaxTokens + i + 1] =
                        (IF TokenValid(i) THEN RawSpan(s, i, 1) ELSE NegativeLogit)

\* the first token is masked and the second valid, the scorer's start and
\* end outputs for the valid token differing
C17_Witness ==
    /\ DecodedOne
    /\ ~TokenValid(0)
    /\ TokenValid(1)
    /\ RawSpan(MAX_NUM_NONCAT_SLOT, 1, 0) = -8
    /\ RawSpan(MAX_NUM_NONCAT_SLOT, 1, 1) = 1
    /\ RawSpan(MAX_NUM_NONCAT_SLOT, 0, 1) = 1
    /\ Logit("logit_noncat_slot_start").data[(MAX_NUM_NONCAT_SLOT - 1) * MaxTokens + 2] = -8
    /\ Logit("logit_noncat_slot_end").data[(MAX_NUM_NONCAT_SLOT - 1) * MaxTokens + 2] = 1
    /\ Logit("logit_noncat_slot_end").data[(MAX_NUM_NONCAT_SLOT - 1) * MaxTokens + 1]
          = NegativeLogit

CallbackStep == Pending > 0 /\ Pending' = 0
OldPredictions == IF "predictions" \in DOMAIN global_vars THEN global_vars.predictions ELSE << >>
\* examples in the values the last callback was called with
CallBatchSize ==
    SumSeq([c \in 1..Len(call.tensors.service_id) |-> call.tensors.service_id[c].shape[1]])

\* C8: the records a call of eval_iter_callback appends, produced by
\* combine_predictions_in_example(predictions, N) from tensors of first
\* dimension N, are exactly N; record i holds element i of the id list
\* and, for every tensor key, row i of the tensor flattened; joining the
\* records' values in index order gives back the data of each tensor.
C8_RecordsAreRows ==
    [][ CallbackStep =>
          LET predictions == Predictions(Output(tensors), ServiceNames, "dev")
              N == Pending
              keys == DOMAIN predictions \ {"example_id"}
              records == SubSeq(global_vars'.predictions, NumPredictions + 1,
                                Len(global_vars'.predictions))
          IN  /\ Len(global_vars'.predictions) = NumPredictions + N
              /\ Len(predictions.example_id) = N
              /\ \A k \in keys : predictions[k].shape[1] = N
              /\ \A i \in 1..N :
                    /\ DOMAIN records[i] = DOMAIN predictions
                    /\ records[i].example_id = predictions.example_id[i]
                    /\ \A k \in keys :
                          LET w == Numel(Tail(predictions[k].shape))
                          IN  records[i][k] =
                                 SubSeq(predictions[k].data, (i - 1) * w + 1, i * w)
              /\ \A k \in keys :
                    Concat([i \in 1..N |-> records[i][k]]) = predictions[k].data ]_vars

\* one call has decoded a batch of MaxRecords examples, not all alike, the
\* spans of the first two differing
C8_Witness ==
    /\ call.fn = "eval_iter_callback"
    /\ CallBatchSize = MaxRecords
    /\ NumPredictions = MaxRecords
    /\ global_vars.predictions[1].example_id # global_vars.predictions[2].example_id
    /\ global_vars.predictions[1].noncat_slot_start # global_vars.predictions[2].noncat_slot_start

\* C9: the list global_vars['predictions'] only grows at its end: once the
\* key exists it stays, every step keeps the records already there unchanged
\* and in place, a call on an absent key starts from the empty list, and a
\* call appends one record per example of its values, in example order.
C9_PredictionsAppendOnly ==
    [][ LET new == IF "predictions" \in DOMAIN global_vars'
                   THEN global_vars'.predictions ELSE << >>
            old == OldPredictions
        IN  /\ "predictions" \in DOMAIN global_vars => "predictions" \in DOMAIN global_vars'
            /\ Len(new) >= Len(old)
            /\ SubSeq(new, 1, Len(old)) = old
            /\ ~CallbackStep => Len(new) = Len(old)
            /\ CallbackStep =>
                  LET ids == get_str_example_id("dev", ServiceNames,
                                                Output(tensors).example_id_num)
                  IN  /\ "predictions" \in DOMAIN global_vars'
                      /\ Len(new) = Len(old) + Pending
                      /\ \A i \in 1..Pending : new[Len(old) + i].example_id = ids[i] ]_vars

\* a call has appended to the records of an earlier call, the first and the
\* last record being of different examples
C9_Witness ==
    /\ call.fn = "eval_iter_callback"
    /\ NumPredictions = MaxRecords
    /\ CallBatchSize < NumPredictions
    /\ global_vars.predictions[1].example_id # global_vars.predictions[MaxRecords].example_id

\* row r of a tensor, as a tensor of one row, and the values of a step
\* holding only example r of chunk c
SliceRow(t, r) ==
    LET w == Numel(Tail(t.shape))
    IN  Tensor(<<1>> \o Tail(t.shape), SubSeq(t.data, (r - 1) * w + 1, r * w))
ExampleTensors(tens, c, r) == [k \in DOMAIN tens |-> <<SliceRow(tens[k][c], r)>>]
ChunkTensors(tens, c) == [k \in DOMAIN tens |-> <<tens[k][c]>>]
\* examples in the chunks before chunk c
ChunkOffset(tens, c) == SumSeq([d \in 1..(c - 1) |-> tens.service_id[d].shape[1]])

\* C13: decoding is independent per example: a call of eval_iter_callback
\* on the concatenation of batches appends the records that calls on each
\* batch in turn append, in the same order, and the record of each example
\* is the record decoded from that example's rows alone, so it does not
\* change with the logits of any other example.
C13_DecodingPerExample ==
    [][ CallbackStep =>
          LET new == global_vars'.predictions
              old == NumPredictions
          IN  /\ SubSeq(new, old + 1, Len(new)) =
                    Concat([c \in 1..Len(tensors.service_id) |->
                               Decoded(ChunkTensors(tensors, c), ServiceNames, "dev")])
              /\ \A c \in 1..Len(tensors.service_id) :
                    \A r \in 1..tensors.service_id[c].shape[1] :
                       <<new[old + ChunkOffset(tensors, c) + r]>> =
                          Decoded(ExampleTensors(tensors, c, r), ServiceNames, "dev") ]_vars

\* one call has decoded the concatenation of two batches, the second of
\* two examples, whose spans are not all alike
C13_Witness ==
    /\ call.fn = "eval_iter_callback"
    /\ Len(call.tensors.service_id) = 2
    /\ call.tensors.service_id[2].shape[1] = 2
    /\ NumPredictions = CallBatchSize
    /\ \E i, j \in 1..NumPredictions :
          global_vars.predictions[i].noncat_slot_p # global_vars.predictions[j].noncat_slot_p

\* a forward pass has returned: its outputs are the last chunk of the
\* values of the step
Forwarded == call.fn = "forward" /\ ret = NoRet /\ Pending > 0

\* C16: _get_requested_slots returns the requested-slot logits of the
\* scorer unchanged at every position, padded positions included, and a
\* 1-D mask of length batch * max_slots whose entry b * max_slots + i is
\* true exactly when i < req_num_slots[b].
C16_ReqLogitsUnchangedMaskFlat ==
    Forwarded =>
        LET logits == tensors.logit_req_slot_status[Len(tensors.logit_req_slot_status)]
            mask == tensors.req_slot_mask[Len(tensors.req_slot_mask)]
            B == call.batch.req_num_slots.shape[1]
        IN  /\ logits = call.batch.scorer.req
            /\ \A k \in 1..(B * MAX_SLOTS) : logits.data[k] # NegativeLogit
            /\ mask.shape = <<B * MAX_SLOTS>>
            /\ Len(mask.data) = B * MAX_SLOTS
            /\ \A b \in 0..(B - 1) : \A i \in 0..(MAX_SLOTS - 1) :
                  mask.data[b * MAX_SLOTS + i + 1] = (i < call.batch.req_num_slots.data[b + 1])

\* a batch whose second example has fewer requested slots than the first
\* and a raised logit at a padded slot
C16_Witness ==
    /\ Forwarded
    /\ call.batch.req_num_slots.shape[1] >= 2
    /\ call.batch.req_num_slots.data[2] < call.batch.req_num_slots.data[1]
    /\ \E i \in call.batch.req_num_slots.data[2]..(MAX_SLOTS - 1) :
          /\ call.batch.scorer.req.data[MAX_SLOTS + i + 1] = 1
          /\ tensors.logit_req_slot_status[Len(tensors.logit_req_slot_status)]
                .data[MAX_SLOTS + i + 1] = 1
          /\ ~tensors.req_slot_mask[Len(tensors.req_slot_mask)].data[MAX_SLOTS + i + 1]

\* the record a call of eval_iter_callback appended for example r of chunk c
\* of its values
CallRecord(c, r) ==
    global_vars.predictions[NumPredictions - CallBatchSize + ChunkOffset(call.tensors, c) + r]

\* C18: each record's noncat_alignment_start and noncat_alignment_end are
\* the token-to-character start and end index arrays supplied for that
\* example, unchanged and whole (one entry per token), and the span
\* decoded for each slot indexes them: its start and end are positions of
\* the arrays.
C18_AlignmentPassedThrough ==
    call.fn = "eval_iter_callback" =>
        \A c \in 1..Len(call.tensors.service_id) :
            \A r \in 1..call.tensors.service_id[c].shape[1] :
                LET rec == CallRecord(c, r)
                IN  /\ rec.noncat_alignment_start = Row(call.tensors.start_char_idx[c], r)
                    /\ rec.noncat_alignment_end = Row(call.tensors.end_char_idx[c], r)
                    /\ Len(rec.noncat_alignment_start) = MaxTokens
                    /\ Len(rec.noncat_alignment_end) = MaxTokens
                    /\ \A s \in NoncatSlots :
                          /\ rec.noncat_slot_start[s] + 1 \in DOMAIN rec.noncat_alignment_start
                          /\ rec.noncat_slot_end[s] + 1 \in DOMAIN rec.noncat_alignment_end

\* one call has decoded two chunks whose examples come with different
\* alignment arrays, the start array of each differing from its end array
C18_Witness ==
    /\ call.fn = "eval_iter_callback"
    /\ Len(call.tensors.service_id) = 2
    /\ CallBatchSize = NumPredictions
    /\ CallRecord(1, 1).noncat_alignment_start # CallRecord(2, 1).noncat_alignment_start
    /\ CallRecord(2, 1).noncat_alignment_start = Row(call.tensors.start_char_idx[2], 1)
    /\ CallRecord(2, 1).noncat_alignment_start # CallRecord(2, 1).noncat_alignment_end

=============================================================================
